---- MODULE Spec2Model ----
(***************************************************************************)
(* A model of src/src/game_objects.rs: the obstacles of the game, the      *)
(* accumulator they spawn into, the Ease decorator, Periodic, CenterProj   *)
(* and GOLGrid.                                                            *)
(*                                                                         *)
(* Numbers.  f32 times are fixed-point integers, one unit = 1/8 beat (so   *)
(* 0.25 beats = 2, 1.0 beat = 8); lengths are whole pixels; CenterProj's   *)
(* pulse is in thousandths.  Rounding of f32 is modelled in SpecPellet     *)
(* only; everywhere else the arithmetic is exact.                          *)
(*                                                                         *)
(* An obstacle is a record with a `tag` naming its variant (the type       *)
(* behind Box<dyn Obstacle>); X_update, X_should_kill, X_collides and      *)
(* X_kill are the trait methods of variant X and Obstacle_* the dynamic    *)
(* dispatch.  An update returns [o |-> the obstacle, a |-> the             *)
(* accumulator] after the call.                                            *)
(***************************************************************************)
EXTENDS Integers, Sequences, FiniteSets, TLC

VARIABLES
    obst,    \* the live obstacle (Obst.obstacle)
    twin,    \* a second obstacle fed the same inputs (the unwrapped one)
    acc,     \* the UpdateAccumulator of the last pass
    clock,   \* the game loop: the lifecycle time last fed, live and started flags
    hist     \* history of what the obstacle asked for, over its whole life

vars == <<obst, twin, acc, clock, hist>>

(***************************************************************************)
(* Bounds of the model                                                     *)
(***************************************************************************)
MaxDt == 3          \* largest frame delta fed in one tick
MaxWarn == 2        \* largest caller-chosen warning_time
MaxShow == 2        \* largest caller-chosen show_time / lifetime
ScreenW == 3        \* screen_width()
ScreenH == 2        \* screen_height()
MaxRad == 1         \* largest pellet radius
Slack == 3          \* how long the loop keeps updating past an obstacle's end

(***************************************************************************)
(* Small helpers                                                           *)
(***************************************************************************)
Min(a, b) == IF a < b THEN a ELSE b

VecAdd(u, v) == <<u[1] + v[1], u[2] + v[2]>>
VecScale(u, k) == <<u[1] * k, u[2] * k>>

\* floor(sqrt(n)) for n >= 0
RECURSIVE ISqrtFrom(_, _)
ISqrtFrom(n, r) == IF (r + 1) * (r + 1) > n THEN r ELSE ISqrtFrom(n, r + 1)
ISqrt(n) == ISqrtFrom(n, 0)

\* floor division that also floors below zero (f32 floor)
FloorDiv(a, b) == IF a >= 0 THEN a \div b ELSE -((-a + b - 1) \div b)

(***************************************************************************)
(* UpdateAccumulator (game.rs): obstacles spawned and effects requested    *)
(* during one pass, and the time captured for the pass.  `calls` records   *)
(* each ModifyArgs handed to a spawner and `employed` each CenterEvent     *)
(* dispatched (with its offset), in order.                                 *)
(***************************************************************************)
NewAcc(t) ==
    [obstacles |-> <<>>, shakes |-> <<>>, jerks |-> <<>>, time |-> t,
     calls |-> <<>>, employed |-> <<>>]

Obst_new(o, start_time) ==
    [obstacle |-> o, marked_for_removal |-> FALSE, start_time |-> start_time]

Acc_time(a) == a.time
Acc_obstacle(a, ob) == [a EXCEPT !.obstacles = Append(@, ob)]
Acc_obst(a, o) == Acc_obstacle(a, Obst_new(o, a.time))
Acc_shake(a, s) == [a EXCEPT !.shakes = Append(@, s)]
Acc_jerk(a, j) == [a EXCEPT !.jerks = Append(@, j)]

(***************************************************************************)
(* Player and the collision collaborator (utils.rs).  collide_cc is the    *)
(* circle-circle test; positions given to it are relative to the           *)
(* obstacle's centre.  The rotated-rectangle and arc tests are answered    *)
(* by the player's `overlaps` flag: whether the player's circle overlaps   *)
(* the footprint the obstacle hands to the collaborator.                   *)
(***************************************************************************)
Players ==
    [pos : {<<0, 0>>, <<1, 0>>, <<40, 0>>}, rad : {0, 5}, overlaps : BOOLEAN]

collide_cc(c1, r1, c2, r2) ==
    (c1[1] - c2[1]) * (c1[1] - c2[1]) + (c1[2] - c2[2]) * (c1[2] - c2[2])
        < (r1 + r2) * (r1 + r2)

collide_cr(player) == player.overlaps
collide_circ_arc(player) == player.overlaps

(***************************************************************************)
(* Pellet                                                                  *)
(***************************************************************************)
Pellet_new(pos, vel, rad) == [tag |-> "Pellet", pos |-> pos, vel |-> vel, rad |-> rad]

\* macroquad's Rect::new(x, y, w, h) and Rect::contains
Rect_new(x, y, w, h) == [x |-> x, y |-> y, w |-> w, h |-> h]
Rect_contains(r, p) ==
    /\ p[1] >= r.x
    /\ p[1] < r.x + r.w
    /\ p[2] < r.y + r.h
    /\ p[2] >= r.y

Pellet_collides(o, player) == collide_cc(<<0, 0>>, o.rad, player.pos, player.rad)

Pellet_should_kill(o) ==
    ~Rect_contains(Rect_new(-o.rad, -o.rad, ScreenW + o.rad, ScreenH + o.rad), o.pos)

Pellet_update_frozen(o, a, dtime, time, dease, ease) == [o |-> o, a |-> a]
Pellet_update(o, a, dtime, time, dease, ease) ==
    [o |-> [o EXCEPT !.pos = VecAdd(@, VecScale(o.vel, dease))], a |-> a]

(***************************************************************************)
(* Bomb                                                                    *)
(***************************************************************************)
Bomb_new(start, target, lifetime, pellets, pellet_vel, pellet_rad) ==
    [tag |-> "Bomb", start |-> start, target |-> target, time |-> 0,
     life |-> lifetime, pellets |-> pellets, pellet_vel |-> pellet_vel,
     pellet_rad |-> pellet_rad]

\* self.rad * self.time with rad = 30.0 / lifetime: 30 * time / life pixels
Bomb_size(o) == (30 * o.time) \div o.life

Bomb_update(o, a, dtime, time, dease, ease) == [o |-> [o EXCEPT !.time = time], a |-> a]
Bomb_should_kill(o) == o.time >= o.life
\* pos() is the centre the player position is relative to.  With life = 0 the
\* radius is 0 * inf = NaN at time 0 (no collision) and inf afterwards.
Bomb_collides(o, player) ==
    IF o.life = 0 THEN o.time > 0
    ELSE collide_cc(<<0, 0>>, Bomb_size(o), player.pos, player.rad)

(***************************************************************************)
(* GrowLaser                                                               *)
(***************************************************************************)
GrowLaser_grow_time == 2      \* 0.25 beats

GrowLaser_new(start, end, thickness, warning_time, show_time, jerk) ==
    [tag |-> "GrowLaser", start |-> start, end |-> end, thickness |-> thickness, warning_time |-> warning_time,
     show_time |-> show_time, jerk |-> jerk, current_time |-> 0, shown |-> FALSE,
     grow_time |-> GrowLaser_grow_time, fade_in |-> warning_time]

\* the same update without the `shown` latch
GrowLaser_update_unlatched(o, a, dtime, time, dease, ease) ==
    IF time >= o.warning_time
    THEN [o |-> [o EXCEPT !.current_time = time, !.shown = TRUE],
          a |-> Acc_jerk(a, o.jerk)]
    ELSE [o |-> [o EXCEPT !.current_time = time], a |-> a]

GrowLaser_update(o, a, dtime, time, dease, ease) ==
    IF ~o.shown /\ time >= o.warning_time
    THEN [o |-> [o EXCEPT !.current_time = time, !.shown = TRUE],
          a |-> Acc_jerk(a, o.jerk)]
    ELSE [o |-> [o EXCEPT !.current_time = time], a |-> a]

GrowLaser_collides(o, player) ==
    o.current_time >= o.warning_time /\ collide_cr(player)

GrowLaser_should_kill_exact(o) == o.current_time = o.warning_time + o.show_time
GrowLaser_should_kill(o) == o.current_time >= o.warning_time + o.show_time

(***************************************************************************)
(* SlamLaser                                                               *)
(***************************************************************************)
SlamLaser_leave_time == 16    \* 2.0 beats

SlamLaser_new(start, end, thickness, warning_time, show_time, anticipation, jerk, shake) ==
    [tag |-> "SlamLaser", start |-> start, end |-> end, thickness |-> thickness, warning_time |-> warning_time,
     show_time |-> show_time, jerk |-> jerk, shake |-> shake, current_time |-> 0,
     shown |-> FALSE, anticipation |-> anticipation,
     leave_time |-> SlamLaser_leave_time]

SlamLaser_with_leave_time(o, new_time) == [o EXCEPT !.leave_time = new_time]

\* the same update overwriting the requests already in the accumulator
SlamLaser_update_clobber(o, a, dtime, time, dease, ease) ==
    IF ~o.shown /\ time >= o.warning_time
    THEN [o |-> [o EXCEPT !.current_time = time, !.shown = TRUE],
          a |-> [a EXCEPT !.jerks = <<o.jerk>>, !.shakes = <<o.shake>>]]
    ELSE [o |-> [o EXCEPT !.current_time = time], a |-> a]

SlamLaser_update(o, a, dtime, time, dease, ease) ==
    IF ~o.shown /\ time >= o.warning_time
    THEN [o |-> [o EXCEPT !.current_time = time, !.shown = TRUE],
          a |-> Acc_shake(Acc_jerk(a, o.jerk), o.shake)]
    ELSE [o |-> [o EXCEPT !.current_time = time], a |-> a]

SlamLaser_collides(o, player) ==
    o.current_time >= o.warning_time /\ collide_cr(player)

SlamLaser_should_kill(o) == o.current_time >= o.warning_time + o.show_time

(***************************************************************************)
(* RotatableRect                                                           *)
(***************************************************************************)
RotatableRect_lit(center, size, warning_time, show_time, grow_time) ==
    [tag |-> "RotatableRect", center |-> center, size |-> size, rot |-> 0,
     warning_time |-> warning_time, show_time |-> show_time, current_time |-> 0,
     grow_time |-> grow_time]

RotatableRect_update(o, a, dtime, time, dease, ease) ==
    [o |-> [o EXCEPT !.current_time = time], a |-> a]

RotatableRect_collides(o, player) ==
    o.current_time >= o.warning_time /\ collide_cr(player)

RotatableRect_should_kill(o) == o.current_time >= o.show_time + o.warning_time

(***************************************************************************)
(* RotatingRect                                                            *)
(***************************************************************************)
RotatingRect_default_warning_time == 64    \* 8.0 beats
RotatingRect_default_show_time == 0
RotatingRect_default_grow_time == 2        \* 0.25 beats

RotatingRect_default ==
    [tag |-> "RotatingRect", rot |-> 0,
     warning_time |-> RotatingRect_default_warning_time,
     show_time |-> RotatingRect_default_show_time,
     current_time |-> 0, ease_time |-> 0,
     grow_time |-> RotatingRect_default_grow_time]

RotatingRect_update(o, a, dtime, time, dease, ease) ==
    [o |-> [o EXCEPT !.current_time = time, !.ease_time = ease], a |-> a]

RotatingRect_collides(o, player) ==
    o.current_time >= o.warning_time /\ collide_cr(player)

RotatingRect_should_kill(o) == o.current_time >= o.show_time + o.warning_time

(***************************************************************************)
(* SpinningArc                                                             *)
(***************************************************************************)
\* #[derive(Default)]: every f32 field is 0.0
SpinningArc_new ==
    [tag |-> "SpinningArc", warning_time |-> 0, show_time |-> 0, ease |-> 0,
     time |-> 0]

SpinningArc_update(o, a, dtime, time, dease, ease) ==
    [o |-> [o EXCEPT !.time = time, !.ease = ease], a |-> a]

SpinningArc_collides(o, player) ==
    collide_circ_arc(player) /\ o.time >= o.warning_time

SpinningArc_should_kill(o) == o.time >= o.warning_time + o.show_time

\* builder!(warning_time), builder!(show_time), ...
With_warning_time(o, v) == [o EXCEPT !.warning_time = v]
With_show_time(o, v) == [o EXCEPT !.show_time = v]
With_period(o, v) == [o EXCEPT !.period = v]
With_first_warning_time(o, v) == [o EXCEPT !.first_warning_time = v]

(***************************************************************************)
(* Accumulatee (game.rs) and the spawners of Periodic.  ModifyArgs::new    *)
(* takes the time; step() sets the step index.                             *)
(***************************************************************************)
ModifyArgs_new(time) == [time |-> time, step |-> 0]
ModifyArgs_step(args, step) == [args EXCEPT !.step = step]

\* Periodic::linear: rect_trail placing rectangles at start + delta * (i - 1)
Periodic_linear(rect_life, warning_time, grow_time, start, delta, scale) ==
    [kind |-> "linear", rect_life |-> rect_life, warning_time |-> warning_time,
     grow_time |-> grow_time, start |-> start, delta |-> delta, scale |-> scale]

\* Periodic::rect_trail's closure, with linear's positioner
Accumulatee_run(m, a, args) ==
    Acc_obst([a EXCEPT !.calls = Append(@, args)],
             RotatableRect_lit(VecAdd(m.start, VecScale(m.delta, args.step - 1)),
                               m.scale, m.warning_time, m.rect_life, m.grow_time))

(***************************************************************************)
(* Periodic                                                                *)
(***************************************************************************)
Periodic_new(steps, interval, modifier) ==
    [tag |-> "Periodic", modifier |-> modifier, time_mod |-> 0, time_div |-> 0,
     interval |-> interval, max_steps |-> steps]

Periodic_collides(o, player) == FALSE

Periodic_should_kill(o) == o.time_div >= o.max_steps

\* the while loop of update (interval > 0)
RECURSIVE Periodic_fire(_, _)
Periodic_fire_once(o, a) ==
    IF o.time_mod >= o.interval
    THEN [o |-> [o EXCEPT !.time_mod = @ - o.interval, !.time_div = @ + 1],
          a |-> Accumulatee_run(o.modifier, a,
                    ModifyArgs_step(ModifyArgs_new(Acc_time(a)), o.time_div))]
    ELSE [o |-> o, a |-> a]
Periodic_fire(o, a) ==
    IF o.time_mod >= o.interval
    THEN Periodic_fire(
             [o EXCEPT !.time_mod = @ - o.interval, !.time_div = @ + 1],
             Accumulatee_run(o.modifier, a,
                             ModifyArgs_step(ModifyArgs_new(Acc_time(a)), o.time_div)))
    ELSE [o |-> o, a |-> a]

Periodic_update(o, a, dtime, time, dease, ease) ==
    Periodic_fire([o EXCEPT !.time_mod = @ + dtime], a)

(***************************************************************************)
(* PelletSpinner and CenterProj                                            *)
(***************************************************************************)
\* (cos, sin) of (i / count) * TAU, exact for the counts that divide 4
Circ(i, count) ==
    LET k == ((i * 4) \div count) % 4
    IN  CASE k = 0 -> <<1, 0>>
          [] k = 1 -> <<0, 1>>
          [] k = 2 -> <<-1, 0>>
          [] k = 3 -> <<0, -1>>

\* the f32 value +inf, which 1.0 / ppb is for ppb = 0; every other period of
\* the model is >= 0
F32_INFINITY == -1

\* time >= start_time + period * count.  With period = inf the product is NaN
\* (count = 0) or inf, and a finite time is >= neither.
PelletSpinner_due(s, time) ==
    IF s.period = F32_INFINITY THEN FALSE
    ELSE time >= s.start_time + s.period * s.count

PelletSpinner_run(s, time, cur_rad, a) ==
    IF PelletSpinner_due(s, time) /\ s.count < s.max
    THEN LET c == s.count + 1
             circ == Circ(c, s.max)
         IN  [s |-> [s EXCEPT !.count = c],
              a |-> Acc_obst(a, Pellet_new(VecScale(circ, cur_rad - s.rad),
                                           VecScale(circ, s.speed), s.rad)),
              done |-> c >= s.max]
    ELSE [s |-> s, a |-> a, done |-> s.count >= s.max]

CenterProj_default_rad == 20
CenterProj_default_warning_time == 8     \* 1.0 beat
CenterProj_default_show_time == 256      \* 32.0 beats
CenterProj_default_leave_time == 2       \* 0.25 beats

CenterProj_new ==
    [tag |-> "CenterProj", time |-> 0, ease |-> 0, rad |-> CenterProj_default_rad,
     pulse |-> 0, warning_time |-> CenterProj_default_warning_time,
     show_time |-> CenterProj_default_show_time,
     leave_time |-> CenterProj_default_leave_time,
     events |-> <<>>, pellet_spinners |-> <<>>]

CenterProj_evs(o, events) == [o EXCEPT !.events = @ \o events]

\* sort_by(total_cmp) on the offsets: a stable sort
RECURSIVE InsertByOffset(_, _)
InsertByOffset(sorted, e) ==
    IF sorted = <<>> THEN <<e>>
    ELSE IF e.off < Head(sorted).off THEN <<e>> \o sorted
    ELSE <<Head(sorted)>> \o InsertByOffset(Tail(sorted), e)

RECURSIVE SortByOffset(_)
SortByOffset(events) ==
    IF events = <<>> THEN <<>>
    ELSE InsertByOffset(SortByOffset(SubSeq(events, 1, Len(events) - 1)),
                        events[Len(events)])

CenterProj_sort_noop(o) == o
CenterProj_sort(o) == [o EXCEPT !.events = SortByOffset(@)]

\* rad * (pulse + 1) * (the leave factor); pulse in thousandths
CenterProj_size(o) ==
    LET r == (o.rad * (o.pulse + 1000)) \div 1000
    IN  IF o.time - o.warning_time > o.show_time - o.leave_time
        THEN (r * (o.warning_time + o.show_time - o.time)) \div o.leave_time
        ELSE r

\* the `for i in 0..count` loops of employ
RECURSIVE SpawnLasers(_, _, _)
SpawnLasers(a, i, count) ==
    IF i >= count THEN a
    ELSE SpawnLasers(
             Acc_obst(a, SlamLaser_with_leave_time(
                 SlamLaser_new(<<0, 0>>, VecScale(Circ(i, count), 1250), 20, 8, 8, 5,
                               <<0, 0>>, 0), 4)),
             i + 1, count)

RECURSIVE SpawnPellets(_, _, _, _, _)
SpawnPellets(a, i, ev, self_rad, messy) ==
    IF i >= ev.count THEN a
    ELSE LET circ == Circ(i, ev.count)
             p == IF messy
                  THEN Pellet_new(<<0, 0>>, <<"gen_range", ev.min_speed, ev.max_speed>>,
                                  ev.rad)
                  ELSE Pellet_new(VecScale(circ, self_rad - ev.rad),
                                  VecScale(circ, ev.speed), ev.rad)
         IN  SpawnPellets(
                 Acc_obst(a, IF ~messy /\ ev.is_strong
                             THEN [tag |-> "Ease", ease |-> "strong", proj |-> p,
                                   prev |-> 0]
                             ELSE p),
                 i + 1, ev, self_rad, messy)

CenterProj_employ(o, event, a) ==
        CASE event.kind = "Pulse" ->
                [o |-> [o EXCEPT !.pulse = 1000], a |-> Acc_shake(a, 10)]
          [] event.kind = "SPulse" ->
                [o |-> [o EXCEPT !.pulse = 1000], a |-> Acc_shake(a, event.strength)]
          [] event.kind = "Lasers" ->
                [o |-> o, a |-> SpawnLasers(a, 0, event.count)]
          [] event.kind = "Pellets" ->
                [o |-> o, a |-> SpawnPellets(a, 0, event, o.rad, FALSE)]
          [] event.kind = "MessyPellets" ->
                [o |-> o, a |-> SpawnPellets(a, 0, event, o.rad, TRUE)]
          [] event.kind = "PelletSpinner" ->
                [o |-> [o EXCEPT !.pellet_spinners = Append(@,
                            [count |-> 0, max |-> event.count, phase |-> event.phase,
                             period |-> IF event.ppb = 0 THEN F32_INFINITY
                                        ELSE 8 \div event.ppb,
                             start_time |-> o.time,
                             rad |-> event.rad, speed |-> event.speed])],
                 a |-> a]

\* while self.events.len() > 0 { if reached { employ; remove(0) } else { break } }
RECURSIVE CenterProj_drain(_, _)
CenterProj_drain_one(o, a) ==
    IF Len(o.events) > 0 /\ o.time - o.warning_time >= o.events[1].off
    THEN LET r == CenterProj_employ(o, o.events[1].ev,
                                    [a EXCEPT !.employed = Append(@, o.events[1])])
         IN  [o |-> [r.o EXCEPT !.events = Tail(@)], a |-> r.a]
    ELSE [o |-> o, a |-> a]
CenterProj_drain(o, a) ==
    IF Len(o.events) > 0 /\ o.time - o.warning_time >= o.events[1].off
    THEN LET r == CenterProj_employ(o, o.events[1].ev,
                                    [a EXCEPT !.employed = Append(@, o.events[1])])
         IN  CenterProj_drain([r.o EXCEPT !.events = Tail(@)], r.a)
    ELSE [o |-> o, a |-> a]

\* the same loop advancing i after a removal as well
RECURSIVE CenterProj_spin_advancing(_, _, _)
CenterProj_spin_advancing(o, a, i) ==
    IF i < Len(o.pellet_spinners)
    THEN LET r == PelletSpinner_run(o.pellet_spinners[i + 1], o.time, o.rad, a)
             ss == [o.pellet_spinners EXCEPT ![i + 1] = r.s]
         IN  CenterProj_spin_advancing(
                 [o EXCEPT !.pellet_spinners =
                      IF r.done THEN SubSeq(ss, 1, i) \o SubSeq(ss, i + 2, Len(ss))
                      ELSE ss],
                 r.a, i + 1)
    ELSE [o |-> o, a |-> a]

\* while i < self.pellet_spinners.len() { if run { remove(i) } else { i += 1 } }
RECURSIVE CenterProj_spin(_, _, _)
CenterProj_spin(o, a, i) ==
    IF i < Len(o.pellet_spinners)
    THEN LET r == PelletSpinner_run(o.pellet_spinners[i + 1], o.time, o.rad, a)
             ss == [o.pellet_spinners EXCEPT ![i + 1] = r.s]
         IN  IF r.done
             THEN CenterProj_spin(
                      [o EXCEPT !.pellet_spinners =
                           SubSeq(ss, 1, i) \o SubSeq(ss, i + 2, Len(ss))],
                      r.a, i)
             ELSE CenterProj_spin([o EXCEPT !.pellet_spinners = ss], r.a, i + 1)
    ELSE [o |-> o, a |-> a]

CenterProj_update(o, a, dtime, time, dease, ease) ==
    LET o1 == [o EXCEPT !.time = time, !.ease = ease, !.pulse = (@ * 975) \div 1000]
        r == CenterProj_drain(o1, a)
    IN  CenterProj_spin(r.o, r.a, 0)

\* trackpos(self.ease) is the centre the player position is relative to
CenterProj_collides(o, player) ==
    collide_cc(<<0, 0>>, CenterProj_size(o), player.pos, player.rad)

CenterProj_should_kill(o) == o.time > o.warning_time + o.show_time

(***************************************************************************)
(* GOLGrid.  gol is row-major, gol[y * width + x + 1] in 1-based indexing. *)
(***************************************************************************)
MOORE_OFFSETS ==
    <<<<-1, -1>>, <<0, -1>>, <<1, -1>>, <<-1, 0>>, <<1, 0>>, <<-1, 1>>, <<0, 1>>,
      <<1, 1>>>>

GOLGrid_default_moore_begin ==
    <<FALSE, FALSE, FALSE, TRUE, FALSE, FALSE, TRUE, FALSE, FALSE>>
GOLGrid_default_moore_stay ==
    <<FALSE, FALSE, TRUE, TRUE, FALSE, FALSE, FALSE, TRUE, FALSE>>
GOLGrid_default_max == 32
GOLGrid_default_period == 8                \* 1.0 beat
GOLGrid_default_warning_time == 0
GOLGrid_default_first_warning_time == 8    \* 1.0 beat

\* GOLGrid::default().dims(w, h) with the cells of `gol` set (populate)
GOLGrid_make(w, h, gol, max) ==
    [tag |-> "GOLGrid", width |-> w, height |-> h, gol |-> gol,
     moore_begin |-> GOLGrid_default_moore_begin,
     moore_stay |-> GOLGrid_default_moore_stay,
     ticks |-> 0, max |-> max, period |-> GOLGrid_default_period, time |-> 0,
     warning_time |-> GOLGrid_default_warning_time,
     first_warning_time |-> GOLGrid_default_first_warning_time]

GOLGrid_get(o, x, y) ==
    IF x < 0 \/ y < 0 THEN FALSE
    ELSE LET i == y * o.width + x
         IN  IF i < Len(o.gol) THEN o.gol[i + 1] ELSE FALSE

GOLGrid_neighbors(o, x, y) ==
    Cardinality({k \in 1..8 :
        GOLGrid_get(o, x + MOORE_OFFSETS[k][1], y + MOORE_OFFSETS[k][2])})

GOLGrid_get_next(o, x, y) ==
    IF GOLGrid_get(o, x, y)
    THEN o.moore_stay[GOLGrid_neighbors(o, x, y) + 1]
    ELSE o.moore_begin[GOLGrid_neighbors(o, x, y) + 1]

\* for x in 0..width { for y in 0..height { if get_next(x, y) { new[..] = true } } }
\* the k-th cell visited is x = k \div height, y = k % height; `new` starts
\* all false and replaces gol after the loop.
RECURSIVE GOLGrid_tick_loop(_, _, _)
GOLGrid_tick_loop(o, new, k) ==
    IF k >= o.width * o.height THEN new
    ELSE LET x == k \div o.height
             y == k % o.height
         IN  GOLGrid_tick_loop(o,
                 IF GOLGrid_get_next(o, x, y)
                 THEN [new EXCEPT ![y * o.width + x + 1] = TRUE]
                 ELSE new,
                 k + 1)

\* the same loop writing into gol itself
RECURSIVE GOLGrid_tick_loop_in_place(_, _)
GOLGrid_tick_loop_in_place(o, k) ==
    IF k >= o.width * o.height THEN o
    ELSE LET x == k \div o.height
             y == k % o.height
         IN  GOLGrid_tick_loop_in_place(
                 [o EXCEPT !.gol[y * o.width + x + 1] = GOLGrid_get_next(o, x, y)],
                 k + 1)

GOLGrid_tick_in_place(o) ==
    [GOLGrid_tick_loop_in_place(o, 0) EXCEPT !.ticks = @ + 1]

GOLGrid_tick(o) ==
    [o EXCEPT !.ticks = @ + 1,
              !.gol = GOLGrid_tick_loop(o, [i \in 1..(o.width * o.height) |-> FALSE], 0)]

\* for x in 0..width { for y in 0..height { if get(x, y) { obst(RotatableRect) } } }
\* the k-th cell visited is x = k \div height, y = k % height.  The centre is
\* kept as the cell (x, y); the size is one cell (pfac).
RECURSIVE GOLGrid_spawn(_, _, _, _)
GOLGrid_spawn(o, a, k, first) ==
    IF k >= o.width * o.height THEN a
    ELSE LET x == k \div o.height
             y == k % o.height
         IN  GOLGrid_spawn(o,
                 IF GOLGrid_get(o, x, y)
                 THEN Acc_obst(a, RotatableRect_lit(<<x, y>>, <<1, 1>>,
                          IF first THEN o.first_warning_time ELSE o.warning_time,
                          (o.period * 5) \div 4, o.period \div 4))
                 ELSE a,
                 k + 1, first)

\* the same update giving every generation's rectangles warning_time
GOLGrid_update_no_first(o, a, dtime, time, dease, ease) ==
    LET o1 == [o EXCEPT !.time = time]
    IN  IF o1.ticks = 0 \/ o1.time > o1.period * o1.ticks + o1.first_warning_time
                                        - o1.warning_time
        THEN LET o2 == GOLGrid_tick(o1)
             IN  [o |-> o2, a |-> GOLGrid_spawn(o2, a, 0, FALSE)]
        ELSE [o |-> o1, a |-> a]

\* the same update spawning the rectangles before the generation step
GOLGrid_update_spawn_previous(o, a, dtime, time, dease, ease) ==
    LET o1 == [o EXCEPT !.time = time]
        first == o1.ticks = 0
    IN  IF first \/ o1.time > o1.period * o1.ticks + o1.first_warning_time
                                  - o1.warning_time
        THEN [o |-> GOLGrid_tick(o1), a |-> GOLGrid_spawn(o1, a, 0, first)]
        ELSE [o |-> o1, a |-> a]

GOLGrid_update(o, a, dtime, time, dease, ease) ==
    LET o1 == [o EXCEPT !.time = time]
        first == o1.ticks = 0
    IN  IF first \/ o1.time > o1.period * o1.ticks + o1.first_warning_time
                                  - o1.warning_time
        THEN LET o2 == GOLGrid_tick(o1)
             IN  [o |-> o2, a |-> GOLGrid_spawn(o2, a, 0, first)]
        ELSE [o |-> o1, a |-> a]

GOLGrid_collides(o, player) == FALSE

GOLGrid_should_kill(o) == o.ticks >= o.max

(***************************************************************************)
(* Easing and Ease.  The easing function is named by a tag: the presets    *)
(* sqrt, quad and quant16th, and closures given to Ease::anon ("id" is     *)
(* |t| t, "neg" is |t| -t, "clamp" is |t| t.min(0.125)).  Time t is in     *)
(* units of 1/8 beat.                                                      *)
(***************************************************************************)
Easing_run(f, t) ==
    CASE f = "sqrt" -> ISqrt(8 * t)
      [] f = "quad" -> (t * t) \div 8
      [] f = "quant16th" -> FloorDiv(t, 2) * 2
      [] f = "id" -> t
      [] f = "neg" -> -t
      [] f = "clamp" -> Min(t, 1)

Ease_anon(proj, f) == [tag |-> "Ease", ease |-> f, proj |-> proj, prev |-> 0]

RECURSIVE Obstacle_update(_, _, _, _, _, _)
RECURSIVE Obstacle_collides(_, _)
RECURSIVE Obstacle_should_kill(_)

\* the same update handing the eased value on as the lifecycle time too
Ease_update_eased_time(o, a, dtime, relative_time, dease, ease) ==
    LET time == Easing_run(o.ease, ease)
        de == time - o.prev
        r == Obstacle_update(o.proj, a, de, time, de, time)
    IN  [o |-> [o EXCEPT !.prev = time, !.proj = r.o], a |-> r.a]

Ease_update(o, a, dtime, relative_time, dease, ease) ==
    LET time == Easing_run(o.ease, ease)
        de == time - o.prev
        r == Obstacle_update(o.proj, a, dtime, relative_time, de, time)
    IN  [o |-> [o EXCEPT !.prev = time, !.proj = r.o], a |-> r.a]

Ease_collides(o, player) == Obstacle_collides(o.proj, player)
Ease_should_kill(o) == Obstacle_should_kill(o.proj)

(***************************************************************************)
(* Box<dyn Obstacle>: dispatch on the variant                              *)
(***************************************************************************)
Obstacle_update(o, a, dtime, time, dease, ease) ==
    CASE o.tag = "Pellet" -> Pellet_update(o, a, dtime, time, dease, ease)
      [] o.tag = "Bomb" -> Bomb_update(o, a, dtime, time, dease, ease)
      [] o.tag = "GrowLaser" -> GrowLaser_update(o, a, dtime, time, dease, ease)
      [] o.tag = "SlamLaser" -> SlamLaser_update(o, a, dtime, time, dease, ease)
      [] o.tag = "Periodic" -> Periodic_update(o, a, dtime, time, dease, ease)
      [] o.tag = "RotatableRect" -> RotatableRect_update(o, a, dtime, time, dease, ease)
      [] o.tag = "RotatingRect" -> RotatingRect_update(o, a, dtime, time, dease, ease)
      [] o.tag = "CenterProj" -> CenterProj_update(o, a, dtime, time, dease, ease)
      [] o.tag = "GOLGrid" -> GOLGrid_update(o, a, dtime, time, dease, ease)
      [] o.tag = "Ease" -> Ease_update(o, a, dtime, time, dease, ease)
      [] o.tag = "SpinningArc" -> SpinningArc_update(o, a, dtime, time, dease, ease)

Obstacle_collides(o, player) ==
    CASE o.tag = "Pellet" -> Pellet_collides(o, player)
      [] o.tag = "Bomb" -> Bomb_collides(o, player)
      [] o.tag = "GrowLaser" -> GrowLaser_collides(o, player)
      [] o.tag = "SlamLaser" -> SlamLaser_collides(o, player)
      [] o.tag = "Periodic" -> Periodic_collides(o, player)
      [] o.tag = "RotatableRect" -> RotatableRect_collides(o, player)
      [] o.tag = "RotatingRect" -> RotatingRect_collides(o, player)
      [] o.tag = "CenterProj" -> CenterProj_collides(o, player)
      [] o.tag = "GOLGrid" -> GOLGrid_collides(o, player)
      [] o.tag = "Ease" -> Ease_collides(o, player)
      [] o.tag = "SpinningArc" -> SpinningArc_collides(o, player)

Obstacle_should_kill(o) ==
    CASE o.tag = "Pellet" -> Pellet_should_kill(o)
      [] o.tag = "Bomb" -> Bomb_should_kill(o)
      [] o.tag = "GrowLaser" -> GrowLaser_should_kill(o)
      [] o.tag = "SlamLaser" -> SlamLaser_should_kill(o)
      [] o.tag = "Periodic" -> Periodic_should_kill(o)
      [] o.tag = "RotatableRect" -> RotatableRect_should_kill(o)
      [] o.tag = "RotatingRect" -> RotatingRect_should_kill(o)
      [] o.tag = "CenterProj" -> CenterProj_should_kill(o)
      [] o.tag = "GOLGrid" -> GOLGrid_should_kill(o)
      [] o.tag = "Ease" -> Ease_should_kill(o)
      [] o.tag = "SpinningArc" -> SpinningArc_should_kill(o)

(***************************************************************************)
(* The game loop (game.rs): each pass feeds the obstacle the frame delta   *)
(* and its lifecycle time through a fresh accumulator; an obstacle whose   *)
(* should_kill is true is killed and removed.  An obstacle that is not     *)
(* wrapped gets dease = dtime and ease = time.                             *)
(***************************************************************************)
NoObstacle == [tag |-> "None"]

NewClock == [time |-> 0, live |-> TRUE, started |-> FALSE]

NewHist(o) ==
    [born_killed |-> Obstacle_should_kill(o), calls |-> <<>>, employed |-> <<>>,
     sumdt |-> 0, njerk |-> 0, nshake |-> 0, updated_after_kill |-> FALSE,
     inserted |-> <<>>, sorted |-> FALSE, first_step_warn |-> {}]

\* the warning times of the obstacles an update pushed
WarnTimes(a) == {a.obstacles[i].obstacle.warning_time : i \in 1..Len(a.obstacles)}

\* `o` is the obstacle before the update, `a` the accumulator after it
Record(h, o, a, dtime) ==
    [h EXCEPT !.calls = @ \o a.calls, !.employed = @ \o a.employed,
              !.sumdt = @ + dtime, !.njerk = @ + Len(a.jerks),
              !.nshake = @ + Len(a.shakes),
              !.updated_after_kill = @ \/ Obstacle_should_kill(o),
              !.first_step_warn = IF o.tag = "GOLGrid" /\ o.ticks = 0
                                  THEN WarnTimes(a) ELSE @]

RECURSIVE InnerObstacle(_)
InnerObstacle(o) == IF o.tag = "Ease" THEN InnerObstacle(o.proj) ELSE o

\* The lifecycle time by which the obstacle's scripted life is over.
TotalDuration(o) ==
    LET i == InnerObstacle(o)
    IN  CASE i.tag = "Pellet" -> 2 * (ScreenW + ScreenH + 2 * MaxRad)
          [] i.tag = "Bomb" -> i.life
          [] i.tag = "Periodic" -> i.interval * i.max_steps
          [] i.tag = "GOLGrid" ->
                 i.period * i.max + i.first_warning_time - i.warning_time
          [] i.tag = "CenterProj" -> i.warning_time + i.show_time + 1
          [] OTHER -> i.warning_time + i.show_time

\* The loop is followed up to this time; later passes are fed this time.
Horizon(o) == TotalDuration(o) + Slack

\* one pass of the loop over the obstacle, `dt` after the previous one
Pass(dt) ==
    /\ clock.live
    /\ LET t == Min(clock.time + dt, Horizon(obst))
           d == t - clock.time
           r == Obstacle_update(obst, NewAcc(t), d, t, d, t)
       IN  /\ obst' = r.o
           /\ acc' = r.a
           /\ clock' = [clock EXCEPT !.time = t, !.started = TRUE]
           /\ hist' = Record(hist, obst, r.a, d)
    /\ UNCHANGED twin

Tick == \E dt \in 0..MaxDt : Pass(dt)

\* a pass after a positive frame delta, up to the horizon
TickForward ==
    \E dt \in 1..MaxDt : clock.time + dt <= Horizon(obst) /\ Pass(dt)

\* Bomb::kill through Bomb::pellet_spawner; every other variant keeps the
\* trait's empty kill, and Ease hands kill to the obstacle it wraps.
\* With life = 0 the snappiness is inf: time * inf + 1 is NaN at time 0, so
\* pos is NaN there, and inf afterwards, so pos is the target.
Bomb_pos(o) ==
    IF o.life = 0 THEN (IF o.time = 0 THEN <<"NaN", "NaN">> ELSE o.target)
    ELSE <<o.target[1] + ((o.start[1] - o.target[1]) * o.life) \div (20 * o.time + o.life),
           o.target[2] + ((o.start[2] - o.target[2]) * o.life) \div (20 * o.time + o.life)>>

RECURSIVE Bomb_kill_from(_, _, _)
Bomb_kill_from(o, a, i) ==
    IF i >= o.pellets THEN a
    ELSE Bomb_kill_from(o,
             Acc_obstacle([a EXCEPT !.calls = Append(@, ModifyArgs_new(Acc_time(a)))],
                 Obst_new(Pellet_new(Bomb_pos(o),
                                     <<Circ(i, o.pellets)[2] * o.pellet_vel,
                                       Circ(i, o.pellets)[1] * o.pellet_vel>>,
                                     o.pellet_rad),
                          Acc_time(a))),
             i + 1)

Bomb_kill_skip_first(o, a) == Bomb_kill_from(o, a, 1)
Bomb_kill(o, a) == Bomb_kill_from(o, a, 0)

Obstacle_kill(o, a) ==
    LET i == InnerObstacle(o)
    IN  IF i.tag = "Bomb" THEN Bomb_kill(i, a) ELSE a

Reap ==
    /\ clock.live
    /\ Obstacle_should_kill(obst)
    /\ acc' = Obstacle_kill(obst, NewAcc(clock.time))
    /\ clock' = [clock EXCEPT !.live = FALSE]
    /\ UNCHANGED <<obst, twin, hist>>

(***************************************************************************)
(* Spec: one obstacle of any variant, as its constructor, Default or       *)
(* builders make it, run by the game loop.                                 *)
(***************************************************************************)
MaxSteps == 2       \* largest Periodic max_steps
MaxInterval == 2    \* largest Periodic interval

Warns == 0..MaxWarn
Shows == 0..MaxShow
Easings == {"id", "sqrt", "quad", "quant16th", "neg", "clamp"}

TimedConfigs ==
    UNION {{GrowLaser_new(<<0, 0>>, <<ScreenW, 0>>, 2, w, s, <<1, 0>>),
            SlamLaser_new(<<0, 0>>, <<ScreenW, 0>>, 2, w, s, 5, <<1, 0>>, 3),
            RotatableRect_lit(<<1, 1>>, <<1, 1>>, w, s, 2),
            With_show_time(With_warning_time(RotatingRect_default, w), s),
            With_show_time(With_warning_time(SpinningArc_new, w), s),
            With_show_time(With_warning_time(CenterProj_new, w), s),
            Bomb_new(<<0, 0>>, <<ScreenW, ScreenH>>, s, 2, 1, 1)}
           : w \in Warns, s \in Shows}
      \cup {RotatingRect_default, SpinningArc_new, CenterProj_new}

PelletConfigs ==
    {Pellet_new(<<x, y>>, v, r) :
        x \in (-MaxRad - 1)..(ScreenW + MaxRad), y \in {-MaxRad - 1, 0, ScreenH},
        v \in {<<0, 0>>, <<1, 0>>, <<-1, 0>>, <<0, 1>>, <<1, -1>>}, r \in 0..MaxRad}

PeriodicConfigs ==
    {Periodic_new(n, i, Periodic_linear(4, 2, 2, <<0, 0>>, <<1, 0>>, <<1, 1>>)) :
        n \in 0..MaxSteps, i \in 1..MaxInterval}

GOLConfigs ==
    {GOLGrid_make(2, 2, g, m) :
        g \in {<<FALSE, FALSE, FALSE, FALSE>>, <<TRUE, TRUE, TRUE, FALSE>>},
        m \in 0..2}

PlainConfigs == TimedConfigs \cup PelletConfigs \cup PeriodicConfigs \cup GOLConfigs

EaseConfigs ==
    {Ease_anon(o, f) :
        o \in {c \in PlainConfigs :
                  \/ c.tag \in {"SpinningArc", "GrowLaser"}
                  \/ c.tag = "Pellet" /\ c.pos[2] = 0 /\ c.rad = MaxRad},
        f \in Easings}

Configs == PlainConfigs \cup EaseConfigs

Init ==
    /\ obst \in Configs
    /\ twin = NoObstacle
    /\ acc = NewAcc(0)
    /\ clock = NewClock
    /\ hist = NewHist(obst)

Next == Tick \/ Reap

Spec == Init /\ [][Next]_vars /\ WF_vars(Tick)

(***************************************************************************)
(* Claims about the lifecycle, checked under Spec                          *)
(***************************************************************************)
WarningTags ==
    {"GrowLaser", "SlamLaser", "RotatableRect", "RotatingRect", "SpinningArc",
     "CenterProj"}

\* C1 (as claimed): for every variant with a warning phase, after updates whose
\* latest lifecycle time is below warning_time, collides is false for every
\* player position and radius.
C1_NoCollisionWhileWarning ==
    (/\ clock.started
     /\ InnerObstacle(obst).tag \in WarningTags
     /\ clock.time < InnerObstacle(obst).warning_time)
        => \A p \in Players : ~Obstacle_collides(obst, p)

\* C2 (as claimed): for every variant, Ease-wrapped ones too, once should_kill
\* is true it is true after every later update.
C2_KillNeverReverts ==
    [][Obstacle_should_kill(obst) => Obstacle_should_kill(obst')]_vars

MonotoneEasings == {"id", "sqrt", "quad", "quant16th", "clamp"}

C2_Covered ==
    \/ InnerObstacle(obst).tag # "Pellet"
    \/ /\ ~hist.born_killed
       /\ obst.tag = "Ease" => obst.ease \in MonotoneEasings

\* C2 (amended): once should_kill is true it stays true after every later
\* update, for every variant other than Pellet, and for a Pellet (bare or
\* Ease-wrapped) that was inside its kill rectangle when constructed and whose
\* easing function is non-decreasing.
C2_KillNeverRevertsCovered ==
    [][(C2_Covered /\ Obstacle_should_kill(obst)) => Obstacle_should_kill(obst')]_vars

\* an Ease-wrapped pellet that started on screen left it, and was updated again
C2_Witness ==
    /\ obst.tag = "Ease"
    /\ obst.proj.tag = "Pellet"
    /\ C2_Covered
    /\ hist.updated_after_kill
    /\ Obstacle_should_kill(obst)

\* C3 (as claimed): should_kill is false at lifecycle time 0, for every
\* configuration the constructors, Default and builders accept.
C3_AliveAtTimeZero == clock.time = 0 => ~Obstacle_should_kill(obst)

C4_Covered ==
    InnerObstacle(obst).tag = "Pellet" =>
        /\ InnerObstacle(obst).vel # <<0, 0>>
        /\ obst.tag = "Ease" => obst.ease # "clamp"

C8_AtMostMaxSteps ==
    (obst.tag = "Periodic" /\ ~hist.updated_after_kill)
        => Len(hist.calls) <= obst.max_steps

MaxEase == 3        \* largest animation-clock value fed to the pair

EaseTwins ==
    {Pellet_new(<<0, 0>>, <<1, 0>>, 1),
     Pellet_new(<<1, 1>>, <<-1, 1>>, 0),
     With_show_time(With_warning_time(RotatingRect_default, 1), MaxShow),
     With_show_time(With_warning_time(SpinningArc_new, 1), MaxShow),
     GrowLaser_new(<<0, 0>>, <<ScreenW, 0>>, 2, 1, MaxShow, <<1, 0>>)}

InitEase ==
    /\ twin \in EaseTwins
    /\ obst = Ease_anon(twin, "id")
    /\ acc = NewAcc(0)
    /\ clock = NewClock
    /\ hist = NewHist(obst)

TickEase ==
    \E dt \in 1..MaxDt, de \in 0..MaxDt, e \in 0..MaxEase :
        /\ clock.live
        /\ clock.time + dt <= Horizon(obst)
        /\ LET t == clock.time + dt
               r == Obstacle_update(obst, NewAcc(t), dt, t, de, e)
               u == Obstacle_update(twin, NewAcc(t), dt, t, de, e)
           IN  /\ obst' = r.o
               /\ twin' = u.o
               /\ acc' = r.a
               /\ clock' = [clock EXCEPT !.time = t, !.started = TRUE]
               /\ hist' = Record(hist, obst, r.a, dt)

NextEase == TickEase

SpecEase == InitEase /\ [][NextEase]_vars

\* C5 (as claimed): under the identity function the wrapped obstacle is, after
\* every tick of any input sequence, in the same state as the unwrapped one
\* fed the same inputs.
C5_IdentityEaseIsNoOp ==
    (obst.tag = "Ease" /\ obst.ease = "id") => obst.proj = twin

(***************************************************************************)
(* SpecCenter: a CenterProj built with evs() and sort() in any order,      *)
(* then run by the game loop.                                              *)
(***************************************************************************)
MaxEvents == 2      \* most events given to a CenterProj
MaxOff == 2         \* largest event offset

CenterEvents ==
    {[kind |-> "Pulse"],
     [kind |-> "Lasers", count |-> 1, phase |-> 0],
     [kind |-> "Pellets", count |-> 2, speed |-> 1, rad |-> 1, phase |-> 0,
      is_strong |-> FALSE],
     [kind |-> "PelletSpinner", count |-> 2, speed |-> 1, rad |-> 1, phase |-> 0,
      ppb |-> 8]}

InitCenter ==
    /\ obst = With_show_time(With_warning_time(CenterProj_new, 1), MaxOff + 1)
    /\ twin = NoObstacle
    /\ acc = NewAcc(0)
    /\ clock = NewClock
    /\ hist = NewHist(obst)

Evs ==
    \E off \in 0..MaxOff, ev \in CenterEvents :
        /\ ~clock.started
        /\ Len(obst.events) < MaxEvents
        /\ obst' = CenterProj_evs(obst, <<[off |-> off, ev |-> ev]>>)
        /\ hist' = [hist EXCEPT !.inserted = Append(@, [off |-> off, ev |-> ev]),
                                !.sorted = FALSE]
        /\ UNCHANGED <<twin, acc, clock>>

Sort ==
    /\ ~clock.started
    /\ ~hist.sorted
    /\ obst' = CenterProj_sort(obst)
    /\ hist' = [hist EXCEPT !.sorted = TRUE]
    /\ UNCHANGED <<twin, acc, clock>>

NextCenter == Evs \/ Sort \/ TickForward \/ Reap

SpecCenter == InitCenter /\ [][NextCenter]_vars

IsSortedByOffset(events) ==
    \A i \in 1..Len(events), j \in 1..Len(events) :
        i < j => events[i].off <= events[j].off

Count(seq, e) == Cardinality({k \in 1..Len(seq) : seq[k] = e})

\* C6 (as claimed): whatever the insertion order, events are dispatched in
\* non-decreasing offset order.
C6_DispatchInOffsetOrder ==
    obst.tag = "CenterProj" => IsSortedByOffset(hist.employed)

\* C6 (amended): when sort() is called after the last evs(), events are
\* dispatched in non-decreasing offset order, whatever the insertion order.
C6_DispatchInOffsetOrderSorted ==
    (obst.tag = "CenterProj" /\ hist.sorted) => IsSortedByOffset(hist.employed)

\* events inserted out of order, sorted, and all dispatched
C6_Witness ==
    /\ hist.sorted
    /\ ~IsSortedByOffset(hist.inserted)
    /\ Len(hist.employed) = MaxEvents
    /\ hist.employed[1].ev.kind = "Lasers"
    /\ hist.employed[2].ev.kind = "Pulse"

\* C7 (as claimed): after each update at time t no event with
\* offset <= t - warning_time remains queued, and over the obstacle's life
\* every event is dispatched exactly once.
C7_ReachedEventsDispatched ==
    (obst.tag = "CenterProj" /\ clock.started) =>
        /\ \A k \in 1..Len(obst.events) :
               obst.events[k].off > clock.time - obst.warning_time
        /\ \A k \in 1..Len(hist.inserted) :
               Count(hist.employed, hist.inserted[k])
                   + Count(obst.events, hist.inserted[k])
                   = Count(hist.inserted, hist.inserted[k])
        /\ ~clock.live => Len(hist.employed) = Len(hist.inserted)

\* C7 (amended): when sort() is called after the last evs(), after each update
\* at time t no event with offset <= t - warning_time remains queued; every
\* event is dispatched at most once, and is either dispatched or still queued.
C7_ReachedEventsDispatchedSorted ==
    (obst.tag = "CenterProj" /\ clock.started /\ hist.sorted) =>
        /\ \A k \in 1..Len(obst.events) :
               obst.events[k].off > clock.time - obst.warning_time
        /\ \A k \in 1..Len(hist.inserted) :
               Count(hist.employed, hist.inserted[k])
                   + Count(obst.events, hist.inserted[k])
                   = Count(hist.inserted, hist.inserted[k])

\* one update dispatched two events of a sorted queue
C7_Witness ==
    /\ hist.sorted
    /\ clock.started
    /\ clock.live
    /\ Len(acc.employed) = 2
    /\ acc.employed[1].off < acc.employed[2].off

(***************************************************************************)
(* SpecGOL: a GOLGrid of GridW x GridH cells with any cells populated,     *)
(* run by the game loop.                                                   *)
(***************************************************************************)
GridW == 3          \* width given to dims()
GridH == 2          \* height given to dims()
MaxGen == 2         \* largest max given to the grid

Grids == [1..(GridW * GridH) -> BOOLEAN]

InitGOL ==
    /\ \E g \in Grids, m \in 1..MaxGen :
           obst = With_first_warning_time(
                      With_period(GOLGrid_make(GridW, GridH, g, m), 4), 1)
    /\ twin = NoObstacle
    /\ acc = NewAcc(0)
    /\ clock = NewClock
    /\ hist = NewHist(obst)

NextGOL == TickForward \/ Reap

SpecGOL == InitGOL /\ [][NextGOL]_vars

InGrid(o, x, y) == x >= 0 /\ y >= 0 /\ x < o.width /\ y < o.height

\* the live cells among the in-grid Moore neighbours of (x, y)
LiveMooreNeighbors(o, x, y) ==
    {k \in 1..8 :
        LET nx == x + MOORE_OFFSETS[k][1]
            ny == y + MOORE_OFFSETS[k][2]
        IN  InGrid(o, nx, ny) /\ o.gol[ny * o.width + nx + 1]}

\* C10 (as claimed): get is false for every coordinate outside the grid, so
\* neighbors counts exactly the live in-grid Moore neighbours of every cell.
C10_OffGridIsDead ==
    (obst.tag = "GOLGrid" /\ clock.started) =>
        /\ \A x \in -1..obst.width, y \in -1..obst.height :
               ~InGrid(obst, x, y) => ~GOLGrid_get(obst, x, y)
        /\ \A x \in 0..(obst.width - 1), y \in 0..(obst.height - 1) :
               GOLGrid_neighbors(obst, x, y)
                   = Cardinality(LiveMooreNeighbors(obst, x, y))

(***************************************************************************)
(* Divisions by a duration.  Each operator is true of an obstacle state    *)
(* when constructing it, or calling draw, collides or a size helper on it, *)
(* evaluates a division whose divisor is a zero duration.                  *)
(***************************************************************************)
\* Bomb::new: snappiness = 20.0 / lifetime, rad = 30.0 / lifetime
Bomb_divides_by_zero(o) == o.life = 0

\* GrowLaser::thick and the fade of GrowLaser::draw
GrowLaser_divides_by_zero(o) ==
    LET total_time == o.warning_time + o.show_time
        growing == o.warning_time <= o.current_time
                       /\ o.current_time <= o.warning_time + o.grow_time
    IN  \/ o.grow_time = 0 /\ (growing \/ o.current_time > total_time - o.grow_time)
        \/ /\ o.current_time < o.warning_time
           /\ o.current_time < o.fade_in
           /\ o.fade_in = 0

\* SlamLaser::slam and the warning line of SlamLaser::draw
SlamLaser_divides_by_zero(o) ==
    LET total == o.warning_time + o.show_time
    IN  \/ o.current_time < o.warning_time /\ o.warning_time = 0
        \/ /\ o.current_time >= o.warning_time
           /\ o.current_time > total - o.leave_time
           /\ o.leave_time = 0

\* RotatableRect::size, RotatableRect::color and the fade of draw
RotatableRect_divides_by_zero(o) ==
    LET total_time == o.warning_time + o.show_time
        growing == o.warning_time <= o.current_time
                       /\ o.current_time <= o.warning_time + o.grow_time
    IN  \/ o.grow_time = 0 /\ (growing \/ o.current_time >= total_time - o.grow_time)
        \/ o.current_time < o.warning_time /\ o.warning_time = 0

\* RotatingRect::get_size, RotatingRect::color and the fade of draw
RotatingRect_divides_by_zero(o) ==
    LET total_time == o.warning_time + o.show_time
        growing == o.warning_time <= o.current_time
                       /\ o.current_time <= o.warning_time + o.grow_time
    IN  \/ o.grow_time = 0 /\ (growing \/ o.current_time >= total_time - o.grow_time)
        \/ o.current_time < o.warning_time /\ o.warning_time = 0

\* CenterProj::color and CenterProj::size
CenterProj_divides_by_zero(o) ==
    \/ o.time < o.warning_time /\ o.warning_time = 0
    \/ /\ o.time - o.warning_time > o.show_time - o.leave_time
       /\ o.leave_time = 0

\* SpinningArc::color
SpinningArc_divides_by_zero(o) == o.time < o.warning_time /\ o.warning_time = 0

Obstacle_divides_by_zero(o) ==
    LET i == InnerObstacle(o)
    IN  CASE i.tag = "Bomb" -> Bomb_divides_by_zero(i)
          [] i.tag = "GrowLaser" -> GrowLaser_divides_by_zero(i)
          [] i.tag = "SlamLaser" -> SlamLaser_divides_by_zero(i)
          [] i.tag = "RotatableRect" -> RotatableRect_divides_by_zero(i)
          [] i.tag = "RotatingRect" -> RotatingRect_divides_by_zero(i)
          [] i.tag = "CenterProj" -> CenterProj_divides_by_zero(i)
          [] i.tag = "SpinningArc" -> SpinningArc_divides_by_zero(i)
          [] OTHER -> FALSE

\* C11 (as claimed): a zero duration used as a divisor is rejected or clamped
\* at construction, so no reachable obstacle state divides by a zero duration.
C11_NoZeroDivisor == ~Obstacle_divides_by_zero(obst)

(***************************************************************************)
(* SpecBomb: a Bomb with Bomb::pellet_spawner, run by the game loop until  *)
(* it is killed.                                                           *)
(***************************************************************************)
MaxLife == 2        \* largest Bomb lifetime
MaxVel == 2         \* largest pellet_vel
PelletCounts == {0, 1, 2, 4}

InitBomb ==
    /\ \E life \in 0..MaxLife, n \in PelletCounts, v \in 1..MaxVel, r \in 0..MaxRad :
           obst = Bomb_new(<<0, 0>>, <<ScreenW, ScreenH>>, life, n, v, r)
    /\ twin = NoObstacle
    /\ acc = NewAcc(0)
    /\ clock = NewClock
    /\ hist = NewHist(obst)

NextBomb == TickForward \/ Reap

SpecBomb == InitBomb /\ [][NextBomb]_vars

Dot(u, v) == u[1] * v[1] + u[2] * v[2]

\* cos(2 * pi / n) for the pellet counts of PelletCounts
CosTurn(n) == CASE n = 1 -> 1 [] n = 2 -> -1 [] n = 4 -> 0

\* C12: kill of a Bomb with pellets = N runs the spawner N times and appends
\* exactly N Pellets: the first launched at angle 0, consecutive directions
\* 2*pi/N apart and all distinct, each with speed pellet_vel, radius
\* pellet_rad, the bomb's current position and the accumulator's time.
C12_KillSpawnsRing ==
    (obst.tag = "Bomb" /\ ~clock.live) =>
        LET n == obst.pellets
            ps == acc.obstacles
        IN  /\ Len(acc.calls) = n
            /\ Len(ps) = n
            /\ \A i \in 1..n :
                   /\ ps[i].obstacle.tag = "Pellet"
                   /\ ps[i].obstacle.rad = obst.pellet_rad
                   /\ ps[i].obstacle.pos = Bomb_pos(obst)
                   /\ ps[i].start_time = acc.time
                   /\ acc.time = clock.time
                   /\ Dot(ps[i].obstacle.vel, ps[i].obstacle.vel)
                          = obst.pellet_vel * obst.pellet_vel
            /\ n > 0 => ps[1].obstacle.vel = <<0, obst.pellet_vel>>
            /\ \A i \in 1..(n - 1) :
                   Dot(ps[i].obstacle.vel, ps[i + 1].obstacle.vel)
                       = CosTurn(n) * obst.pellet_vel * obst.pellet_vel
            /\ \A i, j \in 1..n :
                   i # j => ps[i].obstacle.vel # ps[j].obstacle.vel

\* a bomb of four pellets ran its lifetime and detonated
C12_Witness ==
    /\ obst.tag = "Bomb"
    /\ ~clock.live
    /\ obst.life > 0
    /\ obst.time >= obst.life
    /\ obst.pellets = 4
    /\ Len(acc.obstacles) = 4

(***************************************************************************)
(* Claims about the generation step of GOLGrid, checked under SpecGOL      *)
(***************************************************************************)
Cells(o) == (0..(o.width - 1)) \X (0..(o.height - 1))

Alive(o, c) == o.gol[c[2] * o.width + c[1] + 1]

Stepped == obst.tag = "GOLGrid" /\ obst'.ticks = obst.ticks + 1

\* C13 (as claimed): under the default ruleset one generation step turns a
\* dead cell with exactly 3 live Moore neighbours alive, and keeps a live cell
\* with 2 or 3 live Moore neighbours alive.
C13_ThreeBornTwoThreeStay ==
    [][Stepped =>
          \A c \in Cells(obst) :
              LET n == Cardinality(LiveMooreNeighbors(obst, c[1], c[2]))
              IN  /\ (~Alive(obst, c) /\ n = 3) => Alive(obst', c)
                  /\ (Alive(obst, c) /\ n \in {2, 3}) => Alive(obst', c)]_vars

\* C14 (as claimed): the default ruleset is B3/S23: for every neighbour count
\* n in 0..8 a dead cell becomes alive iff n = 3 and a live cell stays alive
\* iff n is 2 or 3, and the generation step applies exactly that to the count
\* neighbors() returns.
C14_ConwayRules ==
    obst.tag = "GOLGrid" =>
        /\ \A n \in 0..8 :
               /\ obst.moore_begin[n + 1] <=> n = 3
               /\ obst.moore_stay[n + 1] <=> n \in {2, 3}
        /\ \A c \in Cells(obst) :
               GOLGrid_get_next(obst, c[1], c[2])
                   <=> IF Alive(obst, c)
                       THEN GOLGrid_neighbors(obst, c[1], c[2]) \in {2, 3}
                       ELSE GOLGrid_neighbors(obst, c[1], c[2]) = 3

\* C15: tick is a function of the previous generation only: the width, height
\* and rules are kept, and every cell of the new generation is the rule
\* applied to that cell and its neighbour count in the previous generation,
\* never to a cell already written in the same step.  Two grids with equal
\* width, height, rules and cells therefore stay equal tick after tick.
C15_TickFromPreviousGeneration ==
    [][Stepped =>
          /\ obst'.width = obst.width
          /\ obst'.height = obst.height
          /\ obst'.moore_begin = obst.moore_begin
          /\ obst'.moore_stay = obst.moore_stay
          /\ Len(obst'.gol) = obst.width * obst.height
          /\ \A c \in Cells(obst) :
                 Alive(obst', c) <=> GOLGrid_get_next(obst, c[1], c[2])]_vars

\* a second generation step was taken on a grid with live cells
C15_Witness ==
    /\ obst.tag = "GOLGrid"
    /\ obst.ticks = 2
    /\ \E c \in Cells(obst) : Alive(obst, c)
    /\ \E c \in Cells(obst) : ~Alive(obst, c)

(***************************************************************************)
(* SpecGOLDefault: GOLGrid::default() with dims(2, 2), any cells populated *)
(* and any max, every timing left at its default, run by the game loop.    *)
(***************************************************************************)
InitGOLDefault ==
    /\ \E g \in [1..4 -> BOOLEAN], m \in 0..MaxGen : obst = GOLGrid_make(2, 2, g, m)
    /\ twin = NoObstacle
    /\ acc = NewAcc(0)
    /\ clock = NewClock
    /\ hist = NewHist(obst)

SpecGOLDefault == InitGOLDefault /\ [][NextGOL]_vars

\* C16 (as claimed): rectangles spawned by the first generation step carry a
\* shorter warning_time than those spawned by every later generation step.
C16_FirstWarningShorter ==
    (obst.tag = "GOLGrid" /\ clock.live /\ obst.ticks >= 2) =>
        \A w \in hist.first_step_warn, i \in 1..Len(acc.obstacles) :
            w < acc.obstacles[i].obstacle.warning_time

\* C16 (amended): rectangles spawned by the first generation step carry
\* first_warning_time and those of every later step carry warning_time; under
\* the default configuration first_warning_time > warning_time, so the first
\* step's rectangles carry the longer warning.
C16_FirstWarningLonger ==
    (obst.tag = "GOLGrid" /\ clock.live) =>
        /\ obst.first_warning_time > obst.warning_time
        /\ \A w \in hist.first_step_warn : w = obst.first_warning_time
        /\ \A i \in 1..Len(acc.obstacles) :
               /\ acc.obstacles[i].obstacle.tag = "RotatableRect"
               /\ acc.obstacles[i].obstacle.warning_time
                      = IF obst.ticks = 1 THEN obst.first_warning_time
                        ELSE obst.warning_time

\* the first and a later generation step both spawned rectangles
C16_Witness ==
    /\ obst.tag = "GOLGrid"
    /\ clock.live
    /\ obst.ticks = 2
    /\ hist.first_step_warn # {}
    /\ Len(acc.obstacles) > 0

\* C17 (as claimed): an update made first, or while should_kill is false,
\* leaves ticks <= max, for every max >= 0; an update takes at most one
\* generation step; should_kill is true exactly when ticks >= max.
C17_AtMostMaxGenerations ==
    [][obst.tag = "GOLGrid" =>
          /\ obst'.ticks <= obst.ticks + 1
          /\ Obstacle_should_kill(obst) <=> obst.ticks >= obst.max
          /\ (~clock.started \/ ~Obstacle_should_kill(obst))
                 => obst'.ticks <= obst'.max]_vars

(***************************************************************************)
(* SpecPellet: Pellet::update in rounded arithmetic.  f32 rounds every     *)
(* product and sum to the nearest representable value, ties to even; here  *)
(* positions, velocities and dease are kept in quarters (Quarter = 1.0)    *)
(* and every product is rounded to the nearest quarter, ties to even.      *)
(* Sums of quarters are exact.  obst takes one update with dease = a + b,  *)
(* twin takes two updates with dease = a, then dease = b.                  *)
(***************************************************************************)
Quarter == 4        \* the value 1.0
MaxDease == 4       \* largest dease of one update, in quarters
MaxSpeed == 8       \* largest velocity component, in quarters
MaxRounds == 2      \* rounds of updates given to the two pellets

\* n / q rounded to the nearest integer, ties to even
RoundDiv(n, q) ==
    LET f == FloorDiv(n, q)
        r == n - f * q
    IN  IF 2 * r < q THEN f
        ELSE IF 2 * r > q THEN f + 1
        ELSE IF f % 2 = 0 THEN f ELSE f + 1

MulRounded(x, y) == RoundDiv(x * y, Quarter)

\* the same update integrating over dtime instead of dease
Pellet_update_by_dtime(o, a, dtime, time, dease, ease) ==
    [o |-> [o EXCEPT !.pos = <<@[1] + MulRounded(o.vel[1], dtime),
                                @[2] + MulRounded(o.vel[2], dtime)>>],
     a |-> a]

Pellet_update_rounded(o, a, dtime, time, dease, ease) ==
    [o |-> [o EXCEPT !.pos = <<@[1] + MulRounded(o.vel[1], dease),
                                @[2] + MulRounded(o.vel[2], dease)>>],
     a |-> a]

InitPellet ==
    /\ \E x \in {0, 1}, v \in (-2)..MaxSpeed, w \in {0, 3} :
           obst = Pellet_new(<<x, 0>>, <<v, w>>, 1)
    /\ twin = obst
    /\ acc = NewAcc(0)
    /\ clock = NewClock
    /\ hist = NewHist(obst)

\* dtime, time and ease differ between the two pellets
Integrate ==
    /\ clock.time < MaxRounds
    /\ \E a, b \in 0..MaxDease, t1, t2 \in {0, 3} :
           /\ a + b <= MaxDease
           /\ obst' = Pellet_update_rounded(obst, acc, t1, t1, a + b, t1).o
           /\ twin' = Pellet_update_rounded(
                          Pellet_update_rounded(twin, acc, t2, t2, a, t2).o,
                          acc, t2, t2 + 1, b, t2 + 1).o
    /\ clock' = [clock EXCEPT !.time = @ + 1, !.started = TRUE]
    /\ UNCHANGED <<acc, hist>>

NextPellet == Integrate

SpecPellet == InitPellet /\ [][NextPellet]_vars

\* C18 (as claimed): one update with dease = a + b leaves the same position
\* as two updates with dease = a then dease = b, for all positions,
\* velocities and split points; dtime, time and ease do not matter.
C18_Additive == obst.tag = "Pellet" => obst.pos = twin.pos

\* every product vel * dease is exact: the velocity is a whole number
ExactProducts(o) == o.vel[1] % Quarter = 0 /\ o.vel[2] % Quarter = 0

\* C18 (amended): the two positions are equal when every product vel * dease
\* involved is exactly representable; dtime, time and ease do not matter.
C18_AdditiveWhenExact ==
    (obst.tag = "Pellet" /\ ExactProducts(obst)) => obst.pos = twin.pos

\* a pellet of velocity (1.0, 0) moved by split updates
C18_Witness ==
    /\ obst.tag = "Pellet"
    /\ ExactProducts(obst)
    /\ obst.vel = <<Quarter, 0>>
    /\ clock.time = MaxRounds
    /\ twin.pos[1] >= Quarter + 1

(***************************************************************************)
(* Claims about Pellet's kill rectangle and the lasers' one-shot requests, *)
(* checked under Spec                                                      *)
(***************************************************************************)
\* C19 (as claimed): should_kill of a Pellet is true exactly when its position
\* is outside x in [-rad, ScreenW + rad] and y in [-rad, ScreenH + rad].
C19_KilledOutsideOutsetScreen ==
    obst.tag = "Pellet" =>
        (Pellet_should_kill(obst) <=>
            ~(/\ -obst.rad <= obst.pos[1]
              /\ obst.pos[1] <= ScreenW + obst.rad
              /\ -obst.rad <= obst.pos[2]
              /\ obst.pos[2] <= ScreenH + obst.rad))

\* C20: with non-decreasing lifecycle time a GrowLaser (bare or wrapped in
\* Ease) has requested its jerk exactly once if an update with
\* time >= warning_time was made and never otherwise, and no shake; a
\* SlamLaser likewise, with exactly one shake requested by the same update as
\* the jerk.  The requests carry the configured jerk and shake.
C20_OneShotJerk ==
    LET i == InnerObstacle(obst)
        armed == clock.started /\ clock.time >= i.warning_time
    IN  i.tag \in {"GrowLaser", "SlamLaser"} =>
            /\ hist.njerk = IF armed THEN 1 ELSE 0
            /\ hist.nshake = IF armed /\ i.tag = "SlamLaser" THEN 1 ELSE 0
            /\ i.shown <=> armed
            /\ \A k \in 1..Len(acc.jerks) : acc.jerks[k] = i.jerk
            /\ i.tag = "SlamLaser" =>
                   /\ Len(acc.shakes) = Len(acc.jerks)
                   /\ \A k \in 1..Len(acc.shakes) : acc.shakes[k] = i.shake

\* a SlamLaser armed after a warning phase and was updated again
C20_Witness ==
    /\ obst.tag = "SlamLaser"
    /\ obst.warning_time > 0
    /\ obst.current_time > obst.warning_time
    /\ hist.njerk = 1
    /\ hist.nshake = 1
    /\ acc.jerks = <<>>

(***************************************************************************)
(* SpecShared: an obstacle updated and killed with an accumulator that     *)
(* already holds what other obstacles pushed, and that is handed on from   *)
(* call to call without being drained.                                     *)
(***************************************************************************)
SeededAcc ==
    Acc_jerk(Acc_shake(Acc_obst(NewAcc(0), Pellet_new(<<1, 1>>, <<1, 0>>, 1)), 7),
             <<0, 1>>)

SharedConfigs ==
    {GrowLaser_new(<<0, 0>>, <<ScreenW, 0>>, 2, 1, 1, <<1, 0>>),
     SlamLaser_new(<<0, 0>>, <<ScreenW, 0>>, 2, 1, 1, 5, <<1, 0>>, 3),
     Ease_anon(GrowLaser_new(<<0, 0>>, <<ScreenW, 0>>, 2, 1, 1, <<1, 0>>), "quad"),
     Bomb_new(<<0, 0>>, <<ScreenW, ScreenH>>, 1, 2, 1, 1),
     Periodic_new(MaxSteps, 1, Periodic_linear(4, 2, 2, <<0, 0>>, <<1, 0>>, <<1, 1>>)),
     With_first_warning_time(
         With_period(GOLGrid_make(2, 2, <<TRUE, TRUE, TRUE, FALSE>>, 2), 4), 1),
     CenterProj_sort(CenterProj_evs(
         With_show_time(With_warning_time(CenterProj_new, 1), 3),
         <<[off |-> 1, ev |-> [kind |-> "Lasers", count |-> 1, phase |-> 0]],
           [off |-> 0, ev |-> [kind |-> "Pulse"]],
           [off |-> 1, ev |-> [kind |-> "Pellets", count |-> 2, speed |-> 1,
                               rad |-> 1, phase |-> 0, is_strong |-> TRUE]],
           [off |-> 2, ev |-> [kind |-> "PelletSpinner", count |-> 2, speed |-> 1,
                               rad |-> 1, phase |-> 0, ppb |-> 8]]>>))}

InitShared ==
    /\ obst \in SharedConfigs
    /\ twin = NoObstacle
    /\ acc \in {NewAcc(0), SeededAcc}
    /\ clock = NewClock
    /\ hist = NewHist(obst)

TickShared ==
    \E dt \in 0..MaxDt :
        /\ clock.live
        /\ clock.time + dt <= Horizon(obst)
        /\ LET t == clock.time + dt
               r == Obstacle_update(obst, [acc EXCEPT !.time = t], dt, t, dt, t)
           IN  /\ obst' = r.o
               /\ acc' = r.a
               /\ clock' = [clock EXCEPT !.time = t, !.started = TRUE]
        /\ UNCHANGED <<twin, hist>>

ReapShared ==
    /\ clock.live
    /\ Obstacle_should_kill(obst)
    /\ acc' = Obstacle_kill(obst, acc)
    /\ clock' = [clock EXCEPT !.live = FALSE]
    /\ UNCHANGED <<obst, twin, hist>>

NextShared == TickShared \/ ReapShared

SpecShared == InitShared /\ [][NextShared]_vars

IsPrefix(s, t) == Len(s) <= Len(t) /\ SubSeq(t, 1, Len(s)) = s

\* C21: update and kill only append to the accumulator: the obstacles, shakes
\* and jerks it held before the call are still there after it, in the same
\* places and unchanged, so nothing spawned is updated, removed or reordered
\* and no request is dropped.
C21_AccumulatorAppendOnly ==
    [][/\ IsPrefix(acc.obstacles, acc'.obstacles)
       /\ IsPrefix(acc.shakes, acc'.shakes)
       /\ IsPrefix(acc.jerks, acc'.jerks)]_vars

\* a CenterProj pushed lasers, pellets and a shake after what was already there
C21_Witness ==
    /\ obst.tag = "CenterProj"
    /\ Len(acc.obstacles) >= 4
    /\ acc.obstacles[1] = SeededAcc.obstacles[1]
    /\ Len(acc.shakes) = 2
    /\ acc.shakes[1] = 7
    /\ acc.jerks = <<<<0, 1>>>>

(***************************************************************************)
(* SpecEaseTimed: a lifecycle-timed obstacle wrapped in Ease with any      *)
(* easing function, and the same obstacle unwrapped (twin), fed the same   *)
(* (dtime, time, dease, ease) on every tick.                               *)
(***************************************************************************)
TimedTwins ==
    {GrowLaser_new(<<0, 0>>, <<ScreenW, 0>>, 2, 1, MaxShow, <<1, 0>>),
     SlamLaser_new(<<0, 0>>, <<ScreenW, 0>>, 2, 1, MaxShow, 5, <<1, 0>>, 3),
     RotatableRect_lit(<<1, 1>>, <<1, 1>>, 1, MaxShow, 2),
     With_show_time(With_warning_time(RotatingRect_default, 1), MaxShow),
     With_show_time(With_warning_time(SpinningArc_new, 1), MaxShow),
     Bomb_new(<<0, 0>>, <<ScreenW, ScreenH>>, MaxShow, 2, 1, 1)}

InitEaseTimed ==
    /\ twin \in TimedTwins
    /\ \E f \in Easings : obst = Ease_anon(twin, f)
    /\ acc = NewAcc(0)
    /\ clock = NewClock
    /\ hist = NewHist(obst)

SpecEaseTimed == InitEaseTimed /\ [][NextEase]_vars

\* the lifecycle time the obstacle holds has reached its warning_time
Armed(o) ==
    CASE o.tag \in {"GrowLaser", "SlamLaser", "RotatableRect", "RotatingRect"} ->
             o.current_time >= o.warning_time
      [] o.tag = "SpinningArc" -> o.time >= o.warning_time
      [] OTHER -> TRUE

\* C22: for a lifecycle-timed obstacle wrapped in Ease with any easing
\* function, tick by tick: should_kill, the warning gate of collides (and
\* collides itself for a Bomb), and the obstacles produced by kill are those of
\* the unwrapped obstacle, and for every next input the update hands the
\* accumulator the same jerk, shake and obstacles as the unwrapped one's.
C22_EaseKeepsLifecycle ==
    (obst.tag = "Ease" /\ twin.tag # "None") =>
        /\ Obstacle_should_kill(obst) = Obstacle_should_kill(twin)
        /\ Armed(obst.proj) = Armed(twin)
        /\ twin.tag = "Bomb" =>
               \A p \in Players : Obstacle_collides(obst, p) = Obstacle_collides(twin, p)
        /\ Obstacle_kill(obst, NewAcc(clock.time)) = Obstacle_kill(twin, NewAcc(clock.time))
        /\ \A dt \in 0..MaxDt, de \in 0..MaxDt, e \in 0..MaxEase :
               LET t == clock.time + dt
               IN  Obstacle_update(obst, NewAcc(t), dt, t, de, e).a
                       = Obstacle_update(twin, NewAcc(t), dt, t, de, e).a

\* a SlamLaser under a decreasing easing function armed, its animation clock
\* away from its lifecycle time
C22_Witness ==
    /\ obst.tag = "Ease"
    /\ obst.ease = "neg"
    /\ obst.prev < 0
    /\ obst.proj.tag = "SlamLaser"
    /\ obst.proj.shown
    /\ twin.shown
    /\ clock.time > twin.warning_time

(***************************************************************************)
(* SpecLaser: a GrowLaser whose show_time can hold both the grow and the   *)
(* shrink phase, run by the game loop.                                     *)
(***************************************************************************)
MaxLaserShow == 6   \* largest show_time of the laser

\* GrowLaser::thick, in pixels.  The shrink branch is
\* thickness * (current_time - total_time) / -grow_time + 1.0; the sign of
\* the divisor is moved to the dividend.  The thicknesses used are multiples
\* of grow_time, so the divisions are exact.
GrowLaser_thick(o) ==
    LET total_time == o.warning_time + o.show_time
    IN  IF o.warning_time <= o.current_time
               /\ o.current_time <= o.warning_time + o.grow_time
        THEN (o.thickness * (o.current_time - o.warning_time)) \div o.grow_time
        ELSE IF o.current_time > total_time - o.grow_time
        THEN (o.thickness * (total_time - o.current_time)) \div o.grow_time + 1
        ELSE o.thickness

InitLaser ==
    /\ \E th \in {GrowLaser_grow_time, 2 * GrowLaser_grow_time},
          w \in 0..MaxWarn, s \in 0..MaxLaserShow :
           obst = GrowLaser_new(<<0, 0>>, <<ScreenW, 0>>, th, w, s, <<1, 0>>)
    /\ twin = NoObstacle
    /\ acc = NewAcc(0)
    /\ clock = NewClock
    /\ hist = NewHist(obst)

NextLaser == TickForward \/ Reap

SpecLaser == InitLaser /\ [][NextLaser]_vars

\* C23 (as claimed): for every lifecycle time in
\* [warning_time, warning_time + show_time] thick() lies in [0, thickness]; it
\* rises linearly from 0 at warning_time to thickness at
\* warning_time + grow_time, and falls linearly from thickness at
\* warning_time + show_time - grow_time to 0 at warning_time + show_time.
\* Stated for show_time >= 2 * grow_time, where the two phases do not overlap.
C23_ThickEnvelope ==
    LET o == obst
        t == o.current_time - o.warning_time
    IN  (/\ o.tag = "GrowLaser"
         /\ o.show_time >= 2 * o.grow_time
         /\ 0 <= t
         /\ t <= o.show_time) =>
            /\ 0 <= GrowLaser_thick(o)
            /\ GrowLaser_thick(o) <= o.thickness
            /\ t <= o.grow_time =>
                   GrowLaser_thick(o) * o.grow_time = o.thickness * t
            /\ t >= o.show_time - o.grow_time =>
                   GrowLaser_thick(o) * o.grow_time = o.thickness * (o.show_time - t)

\* C24: on each generation step of a GOLGrid the rectangles appended to the
\* accumulator are RotatableRects, exactly one per live cell of the newly
\* computed generation, each centred on its cell (0 <= x < width,
\* 0 <= y < height) with the size of one cell; the grid keeps length
\* width * height.
C24_OneRectPerLiveCell ==
    [][Stepped =>
          LET rects == acc'.obstacles
              live == {c \in Cells(obst') : Alive(obst', c)}
          IN  /\ Len(obst'.gol) = obst'.width * obst'.height
              /\ Len(rects) = Cardinality(live)
              /\ {rects[i].obstacle.center : i \in 1..Len(rects)} = live
              /\ \A i \in 1..Len(rects) :
                     /\ rects[i].obstacle.tag = "RotatableRect"
                     /\ rects[i].obstacle.size = <<1, 1>>]_vars

C24_Witness ==
    /\ obst.tag = "GOLGrid"
    /\ obst.ticks = 2
    /\ Len(acc.obstacles) >= 1
    /\ Len(acc.obstacles) < obst.width * obst.height
    /\ Len(acc.obstacles) = Cardinality({c \in Cells(obst) : Alive(obst, c)})

(***************************************************************************)
(* SpecSpinner: one PelletSpinner, as CenterProj::employ makes it, whose   *)
(* run is called again and again with a time that never decreases.  Past   *)
(* MaxSpinTime every finite firing time of the spinner has been reached,   *)
(* so the time is held there.  obst is the spinner and acc collects what   *)
(* all its calls appended.                                                 *)
(***************************************************************************)
MaxSpinStart == 2   \* latest time at which the spinner is enqueued
MaxSpinTime == 12   \* time from which the calls no longer differ

SpinnerEvents ==
    {[kind |-> "PelletSpinner", count |-> n, speed |-> 1, rad |-> 1, phase |-> 0,
      ppb |-> ppb] : n \in PelletCounts, ppb \in {0, 4, 8}}

InitSpinner ==
    /\ \E ev \in SpinnerEvents, t0 \in 0..MaxSpinStart :
           /\ obst = CenterProj_employ([CenterProj_new EXCEPT !.time = t0], ev,
                                       NewAcc(t0)).o.pellet_spinners[1]
           /\ clock = [NewClock EXCEPT !.time = t0]
    /\ twin = NoObstacle
    /\ acc = NewAcc(0)
    /\ hist = [returned |-> FALSE, calls |-> 0]

RunSpinner ==
    \E dt \in 0..MaxDt :
        LET t == Min(clock.time + dt, MaxSpinTime)
            r == PelletSpinner_run(obst, t, CenterProj_default_rad, acc)
        IN  /\ obst' = r.s
            /\ acc' = r.a
            /\ clock' = [clock EXCEPT !.time = t, !.started = TRUE]
            /\ hist' = [returned |-> r.done, calls |-> Min(hist.calls + 1, 1)]
            /\ UNCHANGED twin

NextSpinner == RunSpinner

SpecSpinner == InitSpinner /\ [][NextSpinner]_vars /\ WF_vars(RunSpinner)

\* the parts of C25 about a single call: count never exceeds max; a call
\* appends at most one Pellet, and only when time >= start_time + period*count
\* and count < max; run returns true exactly when count >= max after the call.
C25_RunSafety ==
    /\ [](obst.count <= obst.max)
    /\ [](hist.calls > 0 => (hist.returned <=> obst.count >= obst.max))
    /\ [][/\ Len(acc'.obstacles) <= Len(acc.obstacles) + 1
          /\ Len(acc'.obstacles) = Len(acc.obstacles) + 1 =>
                 /\ obst.count < obst.max
                 /\ acc'.obstacles[Len(acc'.obstacles)].obstacle.tag = "Pellet"
                 /\ obst.period # F32_INFINITY
                 /\ clock'.time >= obst.start_time + obst.period * obst.count]_vars

\* C25 (as claimed): over any sequence of run calls count never exceeds max,
\* each call appends at most one Pellet and only when it is due and
\* count < max, run returns true exactly when count >= max after the call,
\* and when run keeps being called with the time growing, exactly max
\* pellets are emitted in total.
C25_SpinnerEmitsMax ==
    /\ C25_RunSafety
    /\ <>[](Len(acc.obstacles) = obst.max)

\* every spinner of `spinners` run once at `time`, in order: the spinners
\* left (those whose run returned false) and the accumulator
RECURSIVE RunEachOnce(_, _, _, _)
RunEachOnce(spinners, time, cur_rad, a) ==
    IF spinners = <<>> THEN [kept |-> <<>>, a |-> a]
    ELSE LET r == PelletSpinner_run(Head(spinners), time, cur_rad, a)
             rest == RunEachOnce(Tail(spinners), time, cur_rad, r.a)
         IN  [kept |-> (IF r.done THEN <<>> ELSE <<r.s>>) \o rest.kept,
              a |-> rest.a]

\* C26: in each CenterProj update every spinner of pellet_spinners, those
\* enqueued by an event dispatched earlier in the same update included, has
\* run called exactly once; a spinner whose run returns true is removed in
\* that update, and a removal makes no other spinner skipped or run twice.
C26_EachSpinnerRunOnce ==
    [][(obst.tag = "CenterProj" /\ clock'.time > clock.time) =>
          LET t == clock'.time
              drained == CenterProj_drain([obst EXCEPT !.time = t], NewAcc(t))
              once == RunEachOnce(drained.o.pellet_spinners, t, obst.rad, drained.a)
          IN  /\ Len(drained.o.pellet_spinners) >= Len(obst.pellet_spinners)
              /\ obst'.pellet_spinners = once.kept
              /\ acc'.obstacles = once.a.obstacles
              /\ \A i \in 1..Len(obst'.pellet_spinners) :
                     obst'.pellet_spinners[i].count < obst'.pellet_spinners[i].max]_vars

\* after an update that removed the first spinner and ran the second
C26_Witness ==
    /\ obst.tag = "CenterProj"
    /\ Len(hist.inserted) = 2
    /\ \A i \in 1..2 : hist.inserted[i].ev.kind = "PelletSpinner"
    /\ obst.events = <<>>
    /\ Len(obst.pellet_spinners) = 1
    /\ obst.pellet_spinners[1].count = 1
    /\ Len(acc.obstacles) = 2

(***************************************************************************)
(* SpecPeriodicLoop: Periodic::update followed one iteration of its while  *)
(* loop at a time, for every interval Periodic::new takes (it takes every  *)
(* value; 0 is among them).  hist.pc tells whether an update is inside the *)
(* loop, hist.iters counts the iterations of the running update.           *)
(***************************************************************************)
MaxLoopTime == 6    \* time up to which updates are followed
MaxIters == 5       \* iterations of one update that are followed

\* the body of the while loop
Periodic_iterate(o, a) ==
    [o |-> [o EXCEPT !.time_mod = @ - o.interval, !.time_div = @ + 1],
     a |-> Accumulatee_run(o.modifier, a,
               ModifyArgs_step(ModifyArgs_new(Acc_time(a)), o.time_div))]

InitPeriodicLoop ==
    /\ \E n \in 1..MaxSteps, i \in 0..MaxInterval :
           obst = Periodic_new(n, i, Periodic_linear(4, 2, 2, <<0, 0>>, <<1, 0>>,
                                                     <<1, 1>>))
    /\ twin = NoObstacle
    /\ acc = NewAcc(0)
    /\ clock = NewClock
    /\ hist = [pc |-> "idle", iters |-> 0]

\* self.time_mod += beat_delta, then the loop is entered
EnterUpdate ==
    \E dt \in 0..MaxDt :
        LET t == Min(clock.time + dt, MaxLoopTime)
        IN  /\ hist.pc = "idle"
            /\ ~Periodic_should_kill(obst)
            /\ obst' = [obst EXCEPT !.time_mod = @ + (t - clock.time)]
            /\ acc' = NewAcc(t)
            /\ clock' = [clock EXCEPT !.time = t, !.started = TRUE]
            /\ hist' = [pc |-> "loop", iters |-> 0]
            /\ UNCHANGED twin

\* while self.time_mod >= self.interval { ... }
Iterate ==
    /\ hist.pc = "loop"
    /\ obst.time_mod >= obst.interval
    /\ hist.iters < MaxIters
    /\ obst' = Periodic_iterate(obst, acc).o
    /\ acc' = Periodic_iterate(obst, acc).a
    /\ hist' = [hist EXCEPT !.iters = @ + 1]
    /\ UNCHANGED <<twin, clock>>

ExitLoop ==
    /\ hist.pc = "loop"
    /\ obst.time_mod < obst.interval
    /\ hist' = [hist EXCEPT !.pc = "idle"]
    /\ UNCHANGED <<obst, twin, acc, clock>>

NextPeriodicLoop == EnterUpdate \/ Iterate \/ ExitLoop

SpecPeriodicLoop ==
    /\ InitPeriodicLoop
    /\ [][NextPeriodicLoop]_vars
    /\ WF_vars(Iterate)
    /\ WF_vars(ExitLoop)

\* with a positive interval no update comes near MaxIters iterations, and the
\* stepwise loop leaves what Periodic_update computes
C27_PositiveIntervalExits ==
    obst.interval > 0 =>
        /\ hist.iters < MaxIters
        /\ hist.pc = "loop" =>
               Periodic_fire(obst, acc).o.time_mod < obst.interval

\* C27 (as claimed): Periodic.update terminates for every dtime >= 0 and
\* every Periodic that Periodic::new accepts: an update that entered the
\* firing loop leaves it.
C27_UpdateTerminates == (hist.pc = "loop") ~> (hist.pc = "idle")

(***************************************************************************)
(* SpecEasePellet: a Pellet wrapped in Ease, updated with any sequence of  *)
(* animation-clock values, in the rounded arithmetic of SpecPellet (values *)
(* in quarters, products rounded to the nearest quarter, sums and          *)
(* differences of quarters exact).  hist keeps the pellet's first position *)
(* and the clock values fed so far.                                        *)
(***************************************************************************)
\* the easing functions on quarters: |t| t, |t| -t and quad (t * t)
Easing_run_rounded(f, t) ==
    CASE f = "id" -> t
      [] f = "neg" -> -t
      [] f = "quad" -> MulRounded(t, t)

\* the same update never storing the eased value in prev
Ease_update_rounded_no_prev(o, a, dtime, relative_time, dease, ease) ==
    LET time == Easing_run_rounded(o.ease, ease)
        de == time - o.prev
        r == Pellet_update_rounded(o.proj, a, dtime, relative_time, de, time)
    IN  [o |-> [o EXCEPT !.proj = r.o], a |-> r.a]

\* Ease::update around a Pellet
Ease_update_rounded(o, a, dtime, relative_time, dease, ease) ==
    LET time == Easing_run_rounded(o.ease, ease)
        de == time - o.prev
        r == Pellet_update_rounded(o.proj, a, dtime, relative_time, de, time)
    IN  [o |-> [o EXCEPT !.prev = time, !.proj = r.o], a |-> r.a]

InitEasePellet ==
    /\ \E x \in {0, 1}, v \in (-2)..MaxSpeed, w \in {0, 3}, f \in {"id", "neg", "quad"} :
           obst = Ease_anon(Pellet_new(<<x, 0>>, <<v, w>>, 1), f)
    /\ twin = NoObstacle
    /\ acc = NewAcc(0)
    /\ clock = NewClock
    /\ hist = [start |-> obst.proj.pos, eases |-> <<>>]

TickEasePellet ==
    /\ clock.time < MaxRounds
    /\ \E e \in 0..MaxDease, dt \in {0, 3} :
           LET r == Ease_update_rounded(obst, acc, dt, clock.time + dt, dt, e)
           IN  /\ obst' = r.o
               /\ acc' = r.a
               /\ hist' = [hist EXCEPT !.eases = Append(@, e)]
    /\ clock' = [clock EXCEPT !.time = @ + 1, !.started = TRUE]
    /\ UNCHANGED twin

NextEasePellet == TickEasePellet

SpecEasePellet == InitEasePellet /\ [][NextEasePellet]_vars

\* f(ease) of the most recent update, 0 before the first
LastEased ==
    IF hist.eases = <<>> THEN 0
    ELSE Easing_run_rounded(obst.ease, hist.eases[Len(hist.eases)])

\* C28 (as claimed): after any sequence of Ease.update calls prev is f(ease)
\* of the most recent call, and an Ease-wrapped Pellet is at
\* start + vel * f(last ease), however many updates led there.
C28_Telescopes ==
    /\ obst.prev = LastEased
    /\ obst.proj.pos = <<hist.start[1] + MulRounded(obst.proj.vel[1], LastEased),
                         hist.start[2] + MulRounded(obst.proj.vel[2], LastEased)>>

\* C28 (amended): prev is f(ease) of the most recent call; when every product
\* vel * dease is exactly representable the pellet is at
\* start + vel * f(last ease).  With velocity 1.0 the displacement is the sum
\* of the dease values forwarded, so these sum to f(last ease).
C28_TelescopesWhenExact ==
    /\ obst.prev = LastEased
    /\ ExactProducts(obst.proj) =>
           obst.proj.pos =
               <<hist.start[1] + (obst.proj.vel[1] \div Quarter) * LastEased,
                 hist.start[2] + (obst.proj.vel[2] \div Quarter) * LastEased>>

\* a pellet of velocity (1.0, 0) moved by two updates with different eased
\* values
C28_Witness ==
    /\ Len(hist.eases) = 2
    /\ obst.proj.vel = <<Quarter, 0>>
    /\ Easing_run_rounded(obst.ease, hist.eases[1]) # 0
    /\ Easing_run_rounded(obst.ease, hist.eases[1]) # LastEased
    /\ obst.proj.pos # hist.start

====
